---------------------------- MODULE Spec2Model ----------------------------
(***************************************************************************)
(* A model of the CHIP-8 interpreter of src/src/main.rs: the Chip8 struct, *)
(* its opcode handlers, the font and ROM loaders, the frame export and the *)
(* event-loop closure of main that drives them.                            *)
(*                                                                         *)
(* usize values are 64 bits wide in the program and TLC's integers are 32  *)
(* bits wide, so a usize is kept as its residue modulo 2^64 nearest zero:  *)
(* usize::MAX (the result of 0 - 1 in a build without overflow checks) is  *)
(* written -1, and an index is in bounds when it is >= 0 and < the length. *)
(*                                                                         *)
(* The three large arrays (memory, video_buffer and the frame) are kept as *)
(* the value that fills them and the cells that differ from it, in a       *)
(* normal form: two arrays are equal exactly when their records are.  The  *)
(* bounds of an array are checked where the code indexes it.               *)
(***************************************************************************)
EXTENDS Integers, Sequences, FiniteSets, TLC

VARIABLES
    cpu,        \* the Chip8 value owned by the event-loop closure
    frame,      \* the RGBA frame of `pixels`, one colour per pixel
    panicked,   \* the closure panicked: the process is gone
    event,      \* history: what the last update event supplied and saw
    pre,        \* history: the machine as the last tick found it
    last_call,  \* history: the last Call executed with no Return since
    last_store  \* history: the last Fx55 whose memory range is still intact

vars == <<cpu, frame, panicked, event, pre, last_call, last_store>>

-----------------------------------------------------------------------------
(* Program constants *)

WIDTH == 64
HEIGHT == 32
MemSize == 4000
StackSize == 12
VideoSize == 64 * 32
RomBase == 512
FontSize == 80
UsizeMax == -1

Byte == 0 .. 255
Nibble == 0 .. 15

-----------------------------------------------------------------------------
(* Model bounds *)

\* How many of the sample bytes of ByteSeq the ROM families draw operands from.
NumSamples == 4
\* How many of the sample positions of CoordSeq the draw ROMs use.
NumCoords == 3
\* How many of the key-press situations of HeldSeq an update event may find.
NumHeld == 2
\* The deepest chain of nested Calls a ROM makes
MaxNest == 12

ByteSeq == <<0, 255, 1, 128, 234, 127, 100, 99, 10, 9, 16, 200>>
Samples == { ByteSeq[i] : i \in 1 .. NumSamples }

CoordSeq == <<0, 62, 255, 31, 60, 63, 64, 30>>
Coords == { CoordSeq[i] : i \in 1 .. NumCoords }

HeldSeq == <<{}, {"Key2"}, {"X", "V"}, {"Q"}, {"Key1", "Key3"}>>
HeldSets == { HeldSeq[i] : i \in 1 .. NumHeld }

-----------------------------------------------------------------------------
(* Fixed-width arithmetic on u8/u16 values *)

RECURSIVE BitAnd(_, _)
BitAnd(a, b) ==
    IF a = 0 \/ b = 0 THEN 0
    ELSE (a % 2) * (b % 2) + 2 * BitAnd(a \div 2, b \div 2)

RECURSIVE BitOr(_, _)
BitOr(a, b) ==
    IF a = 0 THEN b
    ELSE IF b = 0 THEN a
    ELSE (IF a % 2 = 1 \/ b % 2 = 1 THEN 1 ELSE 0) + 2 * BitOr(a \div 2, b \div 2)

RECURSIVE BitXor(_, _)
BitXor(a, b) ==
    IF a = 0 THEN b
    ELSE IF b = 0 THEN a
    ELSE (((a % 2) + (b % 2)) % 2) + 2 * BitXor(a \div 2, b \div 2)

\* u8::overflowing_add: the wrapped sum and whether it wrapped
overflowing_add(a, b) == <<(a + b) % 256, a + b > 255>>

\* u8::overflowing_sub: the wrapped difference and whether it wrapped
overflowing_sub(a, b) == <<(a - b + 256) % 256, a < b>>

\* An index into an array of `len` elements that does not panic
InBounds(i, len) == i >= 0 /\ i < len

\* The outcome of a panic inside a handler: no machine is left
PANIC == [panic |-> TRUE]

\* An array holding `fill` in every cell
Filled(fill) == [fill |-> fill, cells |-> [j \in {} |-> fill]]

\* The array's cell i
At(arr, i) == IF i \in DOMAIN arr.cells THEN arr.cells[i] ELSE arr.fill

\* The array with cell i set to v
Put(arr, i, v) ==
    LET keep == IF v = arr.fill THEN DOMAIN arr.cells \ {i}
                ELSE DOMAIN arr.cells \cup {i}
    IN  [arr EXCEPT !.cells = [j \in keep |-> IF j = i THEN v ELSE arr.cells[j]]]

\* The array with the elements of the sequence `bytes` stored from cell
\* `base` on
PutAll(arr, base, bytes) ==
    LET span == { base + k - 1 : k \in 1 .. Len(bytes) }
        keep == (DOMAIN arr.cells \ span)
                  \cup { a \in span : bytes[a - base + 1] # arr.fill }
    IN  [arr EXCEPT !.cells = [j \in keep |-> IF j \in span THEN bytes[j - base + 1]
                                              ELSE arr.cells[j]]]

-----------------------------------------------------------------------------
(* Opcode handlers: each takes the machine c and returns the machine after  *)
(* the handler with pc set to the handler's return value, or PANIC.         *)

\* Clear-display that leaves the redraw flag as it is
opcode_00e0_keeps_redraw(c) ==
    [c EXCEPT !.video_buffer = Filled(0),
              !.pc = c.pc + 2]

\* Clear Screen
opcode_00e0(c) ==
    [c EXCEPT !.video_buffer = Filled(0),
              !.redraw = TRUE,
              !.pc = c.pc + 2]

\* Return. `self.sp -= 1` at 0 panics with overflow checks and wraps without.
opcode_00ee(c, overflow_checks) ==
    IF ~InBounds(c.sp, StackSize) THEN PANIC
    ELSE IF c.sp = 0 /\ overflow_checks THEN PANIC
    ELSE [c EXCEPT !.sp = IF c.sp = 0 THEN UsizeMax ELSE c.sp - 1,
                   !.pc = c.stack[c.sp] % 65536]

\* Jump to nnn
opcode_1nnn(c, nnn) == [c EXCEPT !.pc = nnn]

\* Call that pushes the address of the call itself
opcode_2nnn_pushes_site(c, nnn, overflow_checks) ==
    LET sp == IF c.sp = UsizeMax THEN 0 ELSE c.sp + 1
    IN  IF c.sp = UsizeMax /\ overflow_checks THEN PANIC
        ELSE IF ~InBounds(sp, StackSize) THEN PANIC
        ELSE [c EXCEPT !.sp = sp, !.stack[sp] = c.pc, !.pc = nnn]

\* Call sub-routine at nnn. `self.sp += 1` at usize::MAX panics or wraps.
opcode_2nnn(c, nnn, overflow_checks) ==
    LET sp == IF c.sp = UsizeMax THEN 0 ELSE c.sp + 1
    IN  IF c.sp = UsizeMax /\ overflow_checks THEN PANIC
        ELSE IF ~InBounds(sp, StackSize) THEN PANIC
        ELSE [c EXCEPT !.sp = sp, !.stack[sp] = c.pc + 2, !.pc = nnn]

\* If (Vx == NN)
opcode_3xnn(c, x, nn) ==
    [c EXCEPT !.pc = IF c.registers[x] = nn THEN c.pc + 4 ELSE c.pc + 2]

\* If (Vx != NN)
opcode_4xnn(c, x, nn) ==
    [c EXCEPT !.pc = IF c.registers[x] # nn THEN c.pc + 4 ELSE c.pc + 2]

\* If (Vx == Vy)
opcode_5xnn(c, x, y) ==
    [c EXCEPT !.pc = IF c.registers[x] = c.registers[y] THEN c.pc + 4 ELSE c.pc + 2]

\* Set Vx to NN
opcode_6xnn(c, x, nn) == [c EXCEPT !.registers[x] = nn, !.pc = c.pc + 2]

\* Add NN to Vx
opcode_7xnn(c, x, nn) ==
    [c EXCEPT !.registers[x] = overflowing_add(c.registers[x], nn)[1],
              !.pc = c.pc + 2]

\* Vx = Vy
opcode_8xy0(c, x, y) == [c EXCEPT !.registers[x] = c.registers[y], !.pc = c.pc + 2]

\* Vx | Vy
opcode_8xy1(c, x, y) ==
    [c EXCEPT !.registers[x] = BitOr(c.registers[x], c.registers[y]), !.pc = c.pc + 2]

\* Vx & Vy
opcode_8xy2(c, x, y) ==
    [c EXCEPT !.registers[x] = BitAnd(c.registers[x], c.registers[y]), !.pc = c.pc + 2]

\* Vx ^ Vy
opcode_8xy3(c, x, y) ==
    [c EXCEPT !.registers[x] = BitXor(c.registers[x], c.registers[y]), !.pc = c.pc + 2]

\* Vx += Vy with Carry: the flag is written only when the sum overflowed
opcode_8xy4(c, x, y) ==
    LET r == overflowing_add(c.registers[x], c.registers[y])
        flagged == IF r[2] THEN [c.registers EXCEPT ![15] = 1] ELSE c.registers
    IN  [c EXCEPT !.registers = [flagged EXCEPT ![x] = r[1]], !.pc = c.pc + 2]

\* Subtract that writes the flag only when the subtraction borrowed
opcode_8xy5_keeps_flag(c, x, y) ==
    LET r == overflowing_sub(c.registers[x], c.registers[y])
        flagged == IF r[2] THEN [c.registers EXCEPT ![15] = 0] ELSE c.registers
    IN  [c EXCEPT !.registers = [flagged EXCEPT ![x] = r[1]], !.pc = c.pc + 2]

\* Vx -= Vy with Borrow Flag
opcode_8xy5(c, x, y) ==
    LET r == overflowing_sub(c.registers[x], c.registers[y])
        flagged == [c.registers EXCEPT ![15] = IF r[2] THEN 0 ELSE 1]
    IN  [c EXCEPT !.registers = [flagged EXCEPT ![x] = r[1]], !.pc = c.pc + 2]

\* Vx >>= 1, save LSB in Flag
opcode_8xy6(c, x) ==
    LET flagged == [c.registers EXCEPT ![15] = c.registers[x] % 2]
    IN  [c EXCEPT !.registers = [flagged EXCEPT ![x] = flagged[x] \div 2],
                  !.pc = c.pc + 2]

\* "Vx = Vy - Vx with Borrow Flag": the code subtracts Vy from Vx and writes
\* the flag only when the subtraction overflowed
opcode_8xy7(c, x, y) ==
    LET r == overflowing_sub(c.registers[x], c.registers[y])
        flagged == IF r[2] THEN [c.registers EXCEPT ![15] = 1] ELSE c.registers
    IN  [c EXCEPT !.registers = [flagged EXCEPT ![x] = r[1]], !.pc = c.pc + 2]

\* Vx <<= 1, save MSB in Flag (the masked bit, 0 or 0x80)
opcode_8xye(c, x) ==
    LET flagged == [c.registers EXCEPT ![15] = BitAnd(c.registers[x], 128)]
    IN  [c EXCEPT !.registers = [flagged EXCEPT ![x] = (flagged[x] * 2) % 256],
                  !.pc = c.pc + 2]

\* If (Vx != Vy)
opcode_9xy0(c, x, y) ==
    [c EXCEPT !.pc = IF c.registers[x] # c.registers[y] THEN c.pc + 4 ELSE c.pc + 2]

\* I = nnn
opcode_annn(c, nnn) == [c EXCEPT !.address_reg = nnn, !.pc = c.pc + 2]

\* PC = V0 + nnn
opcode_bnnn(c, nnn) == [c EXCEPT !.pc = c.registers[0] + nnn]

\* Vx = rand & nn, num being the byte the generator returned
opcode_cxnn(c, x, nn, num) ==
    [c EXCEPT !.registers[x] = BitAnd(nn, num) % 256, !.pc = c.pc + 2]

\* Draw that ORs the sprite bits into the buffer
RECURSIVE dxyn_bits_or(_, _, _, _)
dxyn_bits_or(c, video_addr, row, bit) ==
    IF bit >= 8 THEN c
    ELSE IF ~InBounds(c.address_reg + row, MemSize) THEN PANIC
    ELSE LET color == (At(c.memory, c.address_reg + row) \div (2 ^ (7 - bit))) % 2
             i == (video_addr + bit) % 2048
             pixel == At(c.video_buffer, i)
         IN  dxyn_bits_or([c EXCEPT
                 !.registers[15] = BitOr(@, BitAnd(pixel, color)),
                 !.video_buffer = Put(@, i, BitOr(pixel, color))],
               video_addr, row, bit + 1)

\* The inner loop of Draw: bits `bit`..7 of sprite row `row`, most significant
\* first, XORed into the buffer from video_addr on, the index taken modulo
\* the buffer's size; a collision ORs 1 into the flag register.
RECURSIVE dxyn_bits(_, _, _, _)
dxyn_bits(c, video_addr, row, bit) ==
    IF bit >= 8 THEN c
    ELSE IF ~InBounds(c.address_reg + row, MemSize) THEN PANIC
    ELSE LET color == (At(c.memory, c.address_reg + row) \div (2 ^ (7 - bit))) % 2
             i == (video_addr + bit) % 2048
             pixel == At(c.video_buffer, i)
         IN  dxyn_bits([c EXCEPT
                 !.registers[15] = BitOr(@, BitAnd(pixel, color)),
                 !.video_buffer = Put(@, i, BitXor(pixel, color))],
               video_addr, row, bit + 1)

\* The outer loop of Draw: rows `row`..n-1, `drawn` being the machine after
\* the rows before
RECURSIVE dxyn_rows(_, _, _, _, _)
dxyn_rows(drawn, x, y, n, row) ==
    IF drawn = PANIC THEN PANIC
    ELSE IF row >= n THEN drawn
    ELSE LET x_coord == drawn.registers[x]
             y_coord == drawn.registers[y]
             video_addr == (y_coord + row) * 64 + x_coord
         IN  dxyn_rows(dxyn_bits(drawn, video_addr, row, 0), x, y, n, row + 1)

\* The end of Draw, `drawn` being the machine after the loops
dxyn_done(drawn, pc) ==
    IF drawn = PANIC THEN PANIC
    ELSE [drawn EXCEPT !.redraw = TRUE, !.pc = pc + 2]

\* Draw(Vx, Vy, N), N = height
opcode_dxyn(c, x, y, n) ==
    dxyn_done(dxyn_rows([c EXCEPT !.registers[15] = 0], x, y, n, 0), c.pc)

\* If key == Vx
opcode_ex9e(c, x) ==
    [c EXCEPT !.pc = IF c.registers[x] = c.input THEN c.pc + 4 ELSE c.pc + 2]

\* If key != Vx
opcode_exa1(c, x) ==
    [c EXCEPT !.pc = IF c.registers[x] # c.input THEN c.pc + 4 ELSE c.pc + 2]

\* Vx = get_delay()
opcode_fx07(c, x) == [c EXCEPT !.registers[x] = c.delay_timer, !.pc = c.pc + 2]

\* Vx = get_key(): copies the input latch, the status stays as it is
opcode_fx0a(c, x) == [c EXCEPT !.registers[x] = c.input, !.pc = c.pc + 2]

\* "Set Delay to Vx": the code stores the register index x
opcode_fx15(c, x) == [c EXCEPT !.delay_timer = x, !.pc = c.pc + 2]

\* "Set Sound to Vx": the code stores the register index x
opcode_fx18(c, x) == [c EXCEPT !.sound_timer = x, !.pc = c.pc + 2]

\* "Add Vx to I": the code adds the register index x; the u16 addition
\* panics on overflow with overflow checks and wraps without
opcode_fx1e(c, x, overflow_checks) ==
    IF c.address_reg + x > 65535 /\ overflow_checks THEN PANIC
    ELSE [c EXCEPT !.address_reg = (c.address_reg + x) % 65536, !.pc = c.pc + 2]

\* "Set I to Sprite Address Location (Font)": the code loads the memory byte
\* at x * 5, x being the register index
opcode_fx29(c, x) == [c EXCEPT !.address_reg = At(c.memory, x * 5), !.pc = c.pc + 2]

\* BCD whose tens digit is not reduced modulo 100 first
opcode_fx33_tens(c, x) ==
    IF ~InBounds(c.address_reg + 2, MemSize) THEN PANIC
    ELSE LET hundreds == Put(c.memory, c.address_reg, c.registers[x] \div 100)
             tens == Put(hundreds, c.address_reg + 1, c.registers[x] \div 10)
             ones == Put(tens, c.address_reg + 2, c.registers[x] % 10)
         IN  [c EXCEPT !.memory = ones, !.pc = c.pc + 2]

\* Store BCD of Vx into I (hundreds), I+1 (tens), I+2 (ones)
opcode_fx33(c, x) ==
    IF ~InBounds(c.address_reg + 2, MemSize) THEN PANIC
    ELSE LET hundreds == Put(c.memory, c.address_reg, c.registers[x] \div 100)
             tens == Put(hundreds, c.address_reg + 1, (c.registers[x] % 100) \div 10)
             ones == Put(tens, c.address_reg + 2, c.registers[x] % 10)
         IN  [c EXCEPT !.memory = ones, !.pc = c.pc + 2]

\* A dump that stops before Vx
opcode_fx55_exclusive(c, x) ==
    IF ~InBounds(c.address_reg + x, MemSize) THEN PANIC
    ELSE [c EXCEPT !.memory = PutAll(@, c.address_reg,
                                     [k \in 1 .. x |-> c.registers[k - 1]]),
                   !.pc = c.pc + 2]

\* Dump registers from V0 to Vx into Memory, starting at I
opcode_fx55(c, x) ==
    IF ~InBounds(c.address_reg + x, MemSize) THEN PANIC
    ELSE [c EXCEPT !.memory = PutAll(@, c.address_reg,
                                     [k \in 1 .. x + 1 |-> c.registers[k - 1]]),
                   !.pc = c.pc + 2]

\* Load registers from I
opcode_fx65(c, x) ==
    IF ~InBounds(c.address_reg + x, MemSize) THEN PANIC
    ELSE [c EXCEPT !.registers = [i \in 0 .. 15 |->
                                     IF i <= x THEN At(c.memory, c.address_reg + i)
                                     ELSE c.registers[i]],
                   !.pc = c.pc + 2]

-----------------------------------------------------------------------------
(* Decode and dispatch *)

\* The 16-bit instruction word at pc (both bytes must be in memory)
opcode_at(c) == At(c.memory, c.pc) * 256 + At(c.memory, c.pc + 1)

\* The four nibbles of an instruction word, most significant first
nibbles(opcode) ==
    <<opcode \div 4096, (opcode \div 256) % 16, (opcode \div 16) % 16, opcode % 16>>

\* The match of exec_opcode on the nibbles: the handler's result, and the
\* machine as it is for a word no pattern matches
dispatch(c, nib, nnn, nn, num, overflow_checks) ==
    LET x == nib[2]
        y == nib[3]
        n == nib[4]
    IN  CASE nib = <<0, 0, 14, 0>> -> opcode_00e0(c)
          [] nib = <<0, 0, 14, 14>> -> opcode_00ee(c, overflow_checks)
          [] nib[1] = 1 -> opcode_1nnn(c, nnn)
          [] nib[1] = 2 -> opcode_2nnn(c, nnn, overflow_checks)
          [] nib[1] = 3 -> opcode_3xnn(c, x, nn)
          [] nib[1] = 4 -> opcode_4xnn(c, x, nn)
          [] nib[1] = 5 -> opcode_5xnn(c, x, y)
          [] nib[1] = 6 -> opcode_6xnn(c, x, nn)
          [] nib[1] = 7 -> opcode_7xnn(c, x, nn)
          [] nib[1] = 8 /\ n = 0 -> opcode_8xy0(c, x, y)
          [] nib[1] = 8 /\ n = 1 -> opcode_8xy1(c, x, y)
          [] nib[1] = 8 /\ n = 2 -> opcode_8xy2(c, x, y)
          [] nib[1] = 8 /\ n = 3 -> opcode_8xy3(c, x, y)
          [] nib[1] = 8 /\ n = 4 -> opcode_8xy4(c, x, y)
          [] nib[1] = 8 /\ n = 5 -> opcode_8xy5(c, x, y)
          [] nib[1] = 8 /\ n = 6 -> opcode_8xy6(c, x)
          [] nib[1] = 8 /\ n = 7 -> opcode_8xy7(c, x, y)
          [] nib[1] = 8 /\ n = 14 -> opcode_8xye(c, x)
          [] nib[1] = 9 -> opcode_9xy0(c, x, y)
          [] nib[1] = 10 -> opcode_annn(c, nnn)
          [] nib[1] = 11 -> opcode_bnnn(c, nnn)
          [] nib[1] = 12 -> opcode_cxnn(c, x, nn, num)
          [] nib[1] = 13 -> opcode_dxyn(c, x, y, n)
          [] nib[1] = 14 /\ y = 9 /\ n = 14 -> opcode_ex9e(c, x)
          [] nib[1] = 14 /\ y = 10 /\ n = 1 -> opcode_exa1(c, x)
          [] nib[1] = 15 /\ y = 0 /\ n = 7 -> opcode_fx07(c, x)
          [] nib[1] = 15 /\ y = 0 /\ n = 10 -> opcode_fx0a(c, x)
          [] nib[1] = 15 /\ y = 1 /\ n = 5 -> opcode_fx15(c, x)
          [] nib[1] = 15 /\ y = 1 /\ n = 8 -> opcode_fx18(c, x)
          [] nib[1] = 15 /\ y = 1 /\ n = 14 -> opcode_fx1e(c, x, overflow_checks)
          [] nib[1] = 15 /\ y = 2 /\ n = 9 -> opcode_fx29(c, x)
          [] nib[1] = 15 /\ y = 3 /\ n = 3 -> opcode_fx33(c, x)
          [] nib[1] = 15 /\ y = 5 /\ n = 5 -> opcode_fx55(c, x)
          [] nib[1] = 15 /\ y = 6 /\ n = 5 -> opcode_fx65(c, x)
          [] OTHER -> c

\* exec_opcode: fetch, decode, run the handler and store the pc it returns.
\* num is the byte the random generator would return, overflow_checks is
\* whether the build panics on integer overflow.
exec_opcode(c, num, overflow_checks) ==
    IF ~InBounds(c.pc + 1, MemSize) THEN PANIC
    ELSE dispatch(c, nibbles(opcode_at(c)), opcode_at(c) % 4096, opcode_at(c) % 256,
                  num, overflow_checks)

\* tick: one instruction
tick(c, num, overflow_checks) == exec_opcode(c, num, overflow_checks)

-----------------------------------------------------------------------------
(* Frame export, font and ROM loading *)

\* The colours draw writes, as the 24-bit values of their R, G and B bytes
\* (the alpha byte is 0xFF in all three); a frame never written holds zeros
ColorQuiet == 16448016
ColorBeep == 1112592
ColorOff == 1052688
ColorBlank == 0

\* draw: flip the buffer into the RGBA frame when a redraw is pending, and
\* clear the flag either way
draw(c, f) ==
    LET color == IF c.sound_timer = 0 THEN ColorQuiet ELSE ColorBeep
    IN  [cpu |-> [c EXCEPT !.redraw = FALSE],
         frame |-> IF c.redraw
                   THEN [fill |-> ColorOff,
                         cells |-> [i \in { j \in DOMAIN c.video_buffer.cells :
                                              c.video_buffer.cells[j] = 1 } |-> color]]
                   ELSE f]

font ==
    << 240, 144, 144, 144, 240,
        32,  96,  32,  32, 112,
       240,  16, 240, 128, 240,
       240,  16, 240,  16, 240,
       144, 144, 240,  16,  16,
       240, 128, 240,  16, 240,
       240, 128, 240, 144, 240,
       240,  16,  32,  64,  64,
       240, 144, 240, 144, 240,
       240, 144, 240,  16, 240,
       240, 144, 240, 144, 144,
       224, 144, 224, 144, 224,
       240, 128, 128, 128, 240,
       224, 144, 144, 144, 224,
       240, 128, 240, 128, 240,
       240, 128, 240, 128, 128 >>

load_font(c) == [c EXCEPT !.memory = PutAll(@, 0, SubSeq(font, 1, FontSize))]

\* load_rom: the bytes of the ROM file go to 0x200 on (every ROM of the model
\* fits: a longer file panics before the event loop starts)
load_rom(c, bytes) ==
    [c EXCEPT !.memory = PutAll(@, RomBase, bytes)]

\* The Chip8 value main constructs
Chip8 ==
    [status |-> "Running",
     pc |-> 512,
     sp |-> 0,
     memory |-> Filled(0),
     registers |-> [i \in 0 .. 15 |-> 0],
     address_reg |-> 0,
     stack |-> [i \in 0 .. StackSize - 1 |-> 0],
     delay_timer |-> 0,
     sound_timer |-> 0,
     input |-> 0,
     video_buffer |-> Filled(0),
     redraw |-> FALSE]

-----------------------------------------------------------------------------
(* The update branch of the event loop: key mapping and the two clocks *)

\* The else-if chain of key_held tests, in order, with the code each stores
KeyChain ==
    << <<"Key1", 1>>, <<"Key2", 2>>, <<"Key2", 3>>, <<"Key3", 3>>,
       <<"Key4", 12>>, <<"Q", 4>>, <<"W", 5>>, <<"E", 6>>, <<"R", 13>>,
       <<"A", 7>>, <<"S", 8>>, <<"D", 9>>, <<"F", 14>>, <<"Z", 10>>,
       <<"X", 0>>, <<"C", 11>>, <<"V", 15>> >>

\* The value the chain stores in cpu.input when the keys of `held` are down:
\* the first test that succeeds decides, and no key held stores 0
key_code(held) ==
    LET hits == { i \in 1 .. Len(KeyChain) : KeyChain[i][1] \in held }
    IN  IF hits = {} THEN 0
        ELSE KeyChain[CHOOSE i \in hits : \A j \in hits : i <= j][2]

\* A delay clock that keeps the wrapped difference
delay_clock_wraps(c) ==
    [c EXCEPT !.delay_timer = overflowing_sub(c.delay_timer, 1)[1]]

\* The delay clock, once its interval has elapsed
delay_clock(c) ==
    LET r == overflowing_sub(c.delay_timer, 1)
    IN  [c EXCEPT !.delay_timer = IF r[2] THEN 0 ELSE c.delay_timer - 1]

\* The sound clock, once its interval has elapsed
sound_clock(c) ==
    LET r == overflowing_sub(c.sound_timer, 1)
    IN  [c EXCEPT !.sound_timer = IF r[2] THEN 0 ELSE c.sound_timer - 1]

-----------------------------------------------------------------------------
(* ROM images: the bytes load_rom reads from the ROM file *)

\* An instruction word as its two bytes, high byte first
Ins(opcode) == <<opcode \div 256, opcode % 256>>

\* An instruction from its four nibbles
Op(a, b, c, d) == Ins(a * 4096 + b * 256 + c * 16 + d)

\* An instruction of the forms kxnn and knnn
OpXNN(k, x, nn) == <<k * 16 + x, nn>>
OpNNN(k, nnn) == Ins(k * 4096 + nnn)

\* `bytes` followed by zero bytes up to `len` bytes
Pad(bytes, len) == bytes \o [i \in 1 .. len - Len(bytes) |-> 0]

\* Register pairs (x, y) the two-register ROMs use, the same register included
RegPairs == { <<0, 1>>, <<2, 2>> }

\* VF, Vx and Vy are set, then one of 8xy4, 8xy5, 8xy7 runs
ArithRoms ==
    { OpXNN(6, 15, f) \o OpXNN(6, p[1], a) \o OpXNN(6, p[2], b)
        \o Op(8, p[1], p[2], k) :
      f \in {0, 1}, a \in Samples, b \in Samples, p \in RegPairs, k \in {4, 5, 7} }

\* A sprite of n rows with bits at both ends of the row, or without any bit
SpriteRows(n, lit) ==
    [i \in 1 .. n |-> IF ~lit THEN 0 ELSE IF i % 2 = 1 THEN 255 ELSE 129]

\* V0 and V1 are set to a position, the buffer is left blank or gets font
\* glyph 0 at that position, then the sprite stored after the code is drawn
\* twice
DrawRom(vx, vy, n, prefill, lit) ==
    OpXNN(6, 0, vx) \o OpXNN(6, 1, vy)
      \o (IF prefill THEN OpNNN(10, 0) \o Op(13, 0, 1, 5) ELSE << >>)
      \o OpNNN(10, RomBase + (IF prefill THEN 12 ELSE 8))
      \o Op(13, 0, 1, n) \o Op(13, 0, 1, n)
      \o SpriteRows(n, lit)

DrawRoms ==
    { DrawRom(vx, vy, n, prefill, TRUE) :
        vx \in Coords, vy \in Coords, n \in {1, 2}, prefill \in BOOLEAN }
    \cup { DrawRom(62, 255, 15, FALSE, TRUE), DrawRom(0, 0, 0, TRUE, TRUE),
           DrawRom(62, 0, 2, TRUE, FALSE) }

\* `lead` filler instructions, a Call whose target lies `gap` words after the
\* halt loop behind the call site, and there one instruction and a Return
CallRoms ==
    { LET site == RomBase + 2 * lead
          target == site + 4 + 2 * gap
      IN  Pad([i \in 1 .. 2 * lead |-> IF i % 2 = 1 THEN 106 ELSE 7]
                \o OpNNN(2, target) \o OpNNN(1, site + 2), target - RomBase)
            \o OpXNN(7, 3, 1) \o Op(0, 0, 14, 14) :
      lead \in {0, 1}, gap \in {0, 1, 64} }
    \cup { OpNNN(2, RomBase + 2) \o Op(0, 0, 14, 14),   \* returns into the body
           OpNNN(2, RomBase),                             \* calls itself
           Op(0, 0, 14, 14) }                             \* returns at once

\* Both timers are set and read while the program spins
TimerRoms ==
    { Op(15, x, 1, 5) \o Op(15, y, 1, 8) \o Op(15, 4, 0, 7)
        \o OpNNN(1, RomBase + 4) :
      x \in {0, 2}, y \in {0, 3} }

\* Vx is set, then Fx29 runs
FontRoms ==
    { OpXNN(6, x, v) \o Op(15, x, 2, 9) \o OpNNN(1, RomBase + 4) :
      x \in {0, 1, 3, 15}, v \in Samples \cup {10, 5} }

\* Vx and I are set, then Fx33 runs; the last address leaves no room
BcdRoms ==
    { OpXNN(6, x, v) \o OpNNN(10, i) \o Op(15, x, 3, 3) :
      x \in {0, 5}, v \in Samples \cup {234, 99}, i \in {768, 3997, 3998} }

\* Instruction words no pattern of exec_opcode matches
UnknownWords == { 0, 225, 291, 32776, 32783, 57503, 57506, 61440, 61695, 61526 }

\* Registers, I and both timers are given values, then an unknown word runs
UnknownRoms ==
    { OpXNN(6, 0, 7) \o OpXNN(6, 15, 1) \o OpNNN(10, 291) \o Op(15, 2, 1, 5)
        \o Op(15, 1, 1, 8) \o Ins(w) :
      w \in UnknownWords }

\* The remaining opcodes, in straight lines
TourRoms ==
    { OpXNN(12, 0, 255) \o OpXNN(3, 0, 1) \o OpXNN(4, 0, 1) \o Op(5, 0, 1, 0)
        \o OpXNN(7, 0, 255) \o Op(8, 1, 0, 0) \o Op(8, 1, 0, 1) \o Op(8, 1, 0, 2)
        \o Op(8, 1, 0, 3) \o Op(8, 0, 0, 6) \o Op(8, 0, 0, 14) \o Op(9, 0, 1, 0)
        \o Op(0, 0, 14, 0),
      OpXNN(6, 0, 8) \o OpNNN(11, RomBase - 4) \o OpXNN(6, 1, 200)
        \o Op(14, 0, 9, 14) \o Op(14, 0, 10, 1) \o Op(15, 2, 0, 10)
        \o OpNNN(10, 1024) \o Op(15, 3, 1, 14) \o Op(15, 2, 5, 5)
        \o OpXNN(6, 0, 0) \o Op(15, 1, 6, 5) }

\* Vx is set, then Ex9E, ExA1 or Fx0A runs; both words behind it halt
KeyRoms ==
    { OpXNN(6, x, v) \o Op(k[1], x, k[2], k[3]) \o OpNNN(1, RomBase + 4)
        \o OpNNN(1, RomBase + 6) :
      x \in {0, 5}, v \in {0, 2, 4},
      k \in { <<14, 9, 14>>, <<14, 10, 1>>, <<15, 0, 10>> } }

\* `depth` Calls, each to the next one and each with a Return behind it, and
\* a Return where the last Call lands
NestRom(depth) ==
    [i \in 1 .. 4 * depth |->
        LET target == RomBase + 4 * ((i - 1) \div 4 + 1)
        IN  CASE i % 4 = 1 -> 32 + target \div 256
              [] i % 4 = 2 -> target % 256
              [] i % 4 = 3 -> 0
              [] OTHER -> 238]
      \o Op(0, 0, 14, 14)

NestRoms == { NestRom(depth) : depth \in {1, 2, MaxNest - 1, MaxNest} }

\* Addresses around the end of the 4000-byte memory and of the 12-bit range
EdgeAddresses == { 3996, 3998, 3999, 4000, 4095 }

\* pc or I is sent to an edge address and the instruction there, or the one
\* that uses I, runs
MemRoms ==
    { OpNNN(k, nnn) : k \in {1, 2}, nnn \in EdgeAddresses }
    \cup { OpXNN(6, 0, v) \o OpNNN(11, nnn) : v \in {0, 2, 255}, nnn \in EdgeAddresses }
    \cup { OpNNN(10, nnn) \o ins :
             nnn \in EdgeAddresses,
             ins \in { Op(13, 0, 0, 2), Op(15, 0, 3, 3), Op(15, 1, 5, 5),
                       Op(15, 1, 6, 5), Op(15, 3, 2, 9) } }

\* A glyph is drawn, the display is cleared, rows are drawn again and the
\* program spins
RedrawRoms ==
    { OpXNN(6, 0, v) \o OpNNN(10, 5 * g) \o Op(13, 0, 1, 5) \o Op(0, 0, 14, 0)
        \o Op(13, 0, 1, 3) \o Op(13, 1, 1, 0) \o OpXNN(6, 1, 5)
        \o OpNNN(1, RomBase + 14) :
      v \in Coords, g \in {0, 1} }

\* VF and Vx are set, then 8xyE runs
ShiftRoms ==
    { OpXNN(6, 15, f) \o OpXNN(6, p[1], v) \o Op(8, p[1], p[2], 14) :
      f \in {0, 1}, v \in Samples, p \in RegPairs }

\* Vx and I are set, then Fx1E runs twice
AddrRoms ==
    { OpXNN(6, x, v) \o OpNNN(10, i) \o Op(15, x, 1, 14) \o Op(15, x, 1, 14) :
      x \in {0, 3, 15}, v \in Samples, i \in {0, 291, 4095} }

\* What runs between the store and the load of a BlockRom: nothing, a BCD
\* write into the stored range, or one behind it
BlockMid(i) ==
    { << >>,
      OpNNN(10, i) \o Op(15, 2, 3, 3) \o OpNNN(10, i),
      OpNNN(10, i - 8) \o Op(15, 2, 3, 3) \o OpNNN(10, i) }

\* V0..V3 are set, Fx55 stores at I, V0..V2 are overwritten and Fx65 loads
BlockRom(a, x, i, mid) ==
    OpXNN(6, 0, a) \o OpXNN(6, 1, 170) \o OpXNN(6, 2, 7) \o OpXNN(6, 3, 9)
      \o OpNNN(10, i) \o Op(15, x, 5, 5)
      \o OpXNN(6, 0, 85) \o OpXNN(6, 1, 86) \o OpXNN(6, 2, 87) \o mid
      \o Op(15, x, 6, 5)

BlockRoms ==
    UNION { { BlockRom(a, x, i, mid) : a \in Samples, x \in {0, 1, 3}, mid \in BlockMid(i) } :
            i \in {768, 3996, 3998} }

Roms ==
    ArithRoms \cup DrawRoms \cup CallRoms \cup TimerRoms \cup FontRoms
        \cup BcdRoms \cup UnknownRoms \cup TourRoms \cup KeyRoms \cup NestRoms
        \cup MemRoms \cup RedrawRoms \cup ShiftRoms \cup AddrRoms \cup BlockRoms

\* The bytes the random generator may return
RandBytes == Samples

-----------------------------------------------------------------------------
(* The state machine *)

\* What the history keeps of the machine a tick found: all of it, and the
\* instruction word at its pc (-1 when the fetch is out of memory)
Snapshot(c) ==
    [opcode |-> IF InBounds(c.pc + 1, MemSize) THEN opcode_at(c) ELSE -1,
     status |-> c.status,
     pc |-> c.pc,
     sp |-> c.sp,
     memory |-> c.memory,
     registers |-> c.registers,
     address_reg |-> c.address_reg,
     stack |-> c.stack,
     delay_timer |-> c.delay_timer,
     sound_timer |-> c.sound_timer,
     input |-> c.input,
     video_buffer |-> c.video_buffer,
     redraw |-> c.redraw]

NoEvent == [held |-> {}, delay_seen |-> -1, sound_seen |-> -1]
NoCall == [site |-> -1, sp |-> 0, state |-> "none"]
NoStore == [x |-> -1, address_reg |-> 0, registers |-> Chip8.registers]

\* main up to the event loop: the machine is built, font and ROM are loaded
InitWith(roms) ==
    /\ \E rom \in roms : cpu = load_rom(load_font(Chip8), rom)
    /\ frame = Filled(ColorBlank)
    /\ panicked = FALSE
    /\ event = NoEvent
    /\ pre = [Snapshot(Chip8) EXCEPT !.opcode = -1]
    /\ last_call = NoCall
    /\ last_store = NoStore

Init == InitWith(Roms)

\* The bytes the generator can return to this instruction: only Cxnn asks
RandDraws(c) ==
    IF InBounds(c.pc + 1, MemSize) /\ opcode_at(c) \div 4096 = 12
    THEN RandBytes ELSE {0}

\* Whether the build panics on integer overflow, for this instruction: only
\* the additions and subtractions of Return, Call and Fx1E can tell
OverflowChecks(c) ==
    IF InBounds(c.pc + 1, MemSize)
       /\ LET nib == nibbles(opcode_at(c))
          IN  nib = <<0, 0, 14, 14>> \/ nib[1] = 2
                \/ (nib[1] = 15 /\ nib[3] = 1 /\ nib[4] = 14)
    THEN BOOLEAN ELSE {TRUE}

\* Event::RedrawRequested: the frame is exported
RedrawRequested ==
    /\ ~panicked
    /\ LET d == draw(cpu, frame)
       IN  cpu' = d.cpu /\ frame' = d.frame
    /\ UNCHANGED <<panicked, event, pre, last_call, last_store>>

\* The call history after the instruction of `polled` ran without a panic:
\* a Call is remembered with its site and the stack pointer it found, the
\* Return that follows it with no Call or Return between marks it returned
CallHistory(polled) ==
    LET nib == nibbles(opcode_at(polled))
    IN  IF nib[1] = 2
        THEN [site |-> polled.pc, sp |-> polled.sp, state |-> "called"]
        ELSE IF nib = <<0, 0, 14, 14>>
        THEN IF last_call.state = "called"
             THEN [last_call EXCEPT !.state = "returned"] ELSE NoCall
        ELSE last_call

\* The store history after the instruction of `polled` ran without a panic:
\* an Fx55 is remembered with its x, its I and the registers it found, and
\* forgotten when Fx33 writes into the range it stored
StoreHistory(polled) ==
    LET nib == nibbles(opcode_at(polled))
    IN  IF nib[1] = 15 /\ nib[3] = 5 /\ nib[4] = 5
        THEN [x |-> nib[2], address_reg |-> polled.address_reg,
              registers |-> polled.registers]
        ELSE IF /\ nib[1] = 15 /\ nib[3] = 3 /\ nib[4] = 3
                /\ polled.address_reg + 2 >= last_store.address_reg
                /\ polled.address_reg <= last_store.address_reg + last_store.x
        THEN NoStore
        ELSE last_store

\* An event for which input.update is true: the held keys are mapped to
\* cpu.input, one instruction runs, and each clock whose interval has
\* elapsed decrements its timer
MainEventsCleared ==
    /\ ~panicked
    /\ \E held \in HeldSets, delay_elapsed \in BOOLEAN, sound_elapsed \in BOOLEAN :
       \E polled \in {[cpu EXCEPT !.input = key_code(held)]} :
       \E num \in RandDraws(polled), overflow_checks \in OverflowChecks(polled) :
       \E ticked \in {tick(polled, num, overflow_checks)} :
         /\ pre' = Snapshot(polled)
         /\ IF ticked = PANIC
            THEN /\ panicked' = TRUE
                 /\ cpu' = polled
                 /\ event' = [held |-> held, delay_seen |-> -1, sound_seen |-> -1]
                 /\ UNCHANGED <<last_call, last_store>>
            ELSE \E delayed \in {IF delay_elapsed THEN delay_clock(ticked) ELSE ticked} :
                   /\ panicked' = FALSE
                   /\ cpu' = IF sound_elapsed THEN sound_clock(delayed) ELSE delayed
                   /\ event' = [held |-> held,
                                delay_seen |-> IF delay_elapsed
                                               THEN ticked.delay_timer ELSE -1,
                                sound_seen |-> IF sound_elapsed
                                               THEN delayed.sound_timer ELSE -1]
                   /\ last_call' = CallHistory(polled)
                   /\ last_store' = StoreHistory(polled)
    /\ UNCHANGED frame

Next == RedrawRequested \/ MainEventsCleared

Spec == Init /\ [][Next]_vars

InitArith == InitWith(ArithRoms)
SpecArith == InitArith /\ [][Next]_vars

InitDraw == InitWith(DrawRoms)
SpecDraw == InitDraw /\ [][Next]_vars

InitCall == InitWith(CallRoms)
SpecCall == InitCall /\ [][Next]_vars

InitTimer == InitWith(TimerRoms \cup UnknownRoms)
SpecTimer == InitTimer /\ [][Next]_vars

InitFont == InitWith(FontRoms)
SpecFont == InitFont /\ [][Next]_vars

InitBcd == InitWith(BcdRoms)
SpecBcd == InitBcd /\ [][Next]_vars

InitUnknown == InitWith(UnknownRoms)
SpecUnknown == InitUnknown /\ [][Next]_vars

InitKey == InitWith(KeyRoms)
SpecKey == InitKey /\ [][Next]_vars

InitNest == InitWith(NestRoms \cup CallRoms)
SpecNest == InitNest /\ [][Next]_vars

InitMem == InitWith(MemRoms)
SpecMem == InitMem /\ [][Next]_vars

InitRedraw == InitWith(RedrawRoms)
SpecRedraw == InitRedraw /\ [][Next]_vars

InitShift == InitWith(ShiftRoms)
SpecShift == InitShift /\ [][Next]_vars

InitAddr == InitWith(AddrRoms)
SpecAddr == InitAddr /\ [][Next]_vars

InitBlock == InitWith(BlockRoms)
SpecBlock == InitBlock /\ [][Next]_vars

-----------------------------------------------------------------------------
(* Properties.  After an update event `pre` is the machine the instruction  *)
(* found (the keys already mapped) and cpu the machine it left, the clocks  *)
(* applied; a frame export in between changes only cpu.redraw.              *)

\* The last instruction was fetched and ran to its end
Ran == pre.opcode >= 0 /\ ~panicked

\* The operand fields of the last instruction
PreNib == nibbles(pre.opcode)
PreX == PreNib[2]
PreY == PreNib[3]
PreN == PreNib[4]
PreVx == pre.registers[PreX]
PreVy == pre.registers[PreY]

\* The last instruction was 8xyk with neither x nor y the flag register
RanArith(k) ==
    Ran /\ PreNib[1] = 8 /\ PreN = k /\ PreX # 15 /\ PreY # 15

\* This step is an update event: a frame export leaves the history alone
UpdateStep == <<pre, event>>' # <<pre, event>>

\* C1: a Call at address a executed with an empty stack and then a Return,
\* with no other Call or Return between them, leave pc = a + 2 and sp = 0.
C1_CallReturnRoundTrip ==
    (Ran /\ pre.opcode = 238 /\ last_call.state = "returned" /\ last_call.sp = 0)
        => (cpu.pc = last_call.site + 2 /\ cpu.sp = 0)

\* A Call from a site behind the entry point, other instructions and the
\* matching Return have run
C1_Witness ==
    /\ Ran /\ pre.opcode = 238
    /\ last_call.state = "returned" /\ last_call.sp = 0
    /\ last_call.site = RomBase + 2
    /\ pre.pc > last_call.site + 6
    /\ pre.registers[3] = 1

\* C2: after 8xy4 (x, y not F) Vx = (Vx + Vy) mod 256 and VF = 1 if the sum
\* exceeds 255, otherwise VF = 0, whatever VF held before.
C2_AddWithCarry ==
    RanArith(4)
        => /\ cpu.registers[PreX] = (PreVx + PreVy) % 256
           /\ cpu.registers[15] = IF PreVx + PreVy > 255 THEN 1 ELSE 0

\* C3: after 8xy5 (x, y not F) Vx = (Vx - Vy) mod 256 and VF = 1 if Vx >= Vy,
\* VF = 0 if Vx < Vy, whatever VF held before.
C3_SubWithBorrow ==
    RanArith(5)
        => /\ cpu.registers[PreX] = (PreVx - PreVy + 256) % 256
           /\ cpu.registers[15] = IF PreVx >= PreVy THEN 1 ELSE 0

\* 8xy5 has run with a borrow and VF = 1 before it
C3_Witness ==
    RanArith(5) /\ PreVx < PreVy /\ pre.registers[15] = 1 /\ cpu.registers[15] = 0

\* C4: after 8xy7 (x, y not F) Vx = (Vy - Vx) mod 256 and VF = 1 if Vy >= Vx,
\* VF = 0 if Vy < Vx, whatever VF held before.
C4_ReverseSubtract ==
    RanArith(7)
        => /\ cpu.registers[PreX] = (PreVy - PreVx + 256) % 256
           /\ cpu.registers[15] = IF PreVy >= PreVx THEN 1 ELSE 0

\* The last instruction was Dxyn with neither x nor y the flag register
RanDraw == Ran /\ PreNib[1] = 13 /\ PreX # 15 /\ PreY # 15

\* The last instruction was Fxkl
RanF(k, l) == Ran /\ PreNib[1] = 15 /\ PreY = k /\ PreN = l

\* The cells in which two arrays can differ from their fill
Cells(a, b) == DOMAIN a.cells \cup DOMAIN b.cells

\* The cells in which two arrays with the same fill differ
Flipped(before, after) ==
    { i \in Cells(before, after) : At(before, i) # At(after, i) }

\* This step executes the same Dxyn as the last instruction, with the same
\* position, address register and sprite bytes: cpu is the machine between
\* the two draws, pre the one before the first, cpu' the one after the second
SecondDrawStep ==
    /\ RanDraw /\ UpdateStep /\ ~panicked'
    /\ pre'.opcode = pre.opcode
    /\ pre'.registers[PreX] = PreVx /\ pre'.registers[PreY] = PreVy
    /\ pre'.address_reg = pre.address_reg
    /\ \A r \in 0 .. PreN - 1 :
         At(pre'.memory, pre.address_reg + r) = At(pre.memory, pre.address_reg + r)

\* The sprite of the last Draw has a set bit
SpriteLit == \E r \in 0 .. PreN - 1 : At(pre.memory, pre.address_reg + r) # 0

\* C5: Dxyn executed twice in a row with the same operands (x, y not F)
\* leaves the pixel buffer as it was before the first draw; when the sprite
\* has a set bit and the pixels it draws on were all unset, VF is 0 after
\* the first draw and 1 after the second.
C5_DrawTwiceCancels ==
    [][SecondDrawStep =>
         /\ cpu'.video_buffer = pre.video_buffer
         /\ (SpriteLit /\ \A i \in Flipped(pre.video_buffer, cpu.video_buffer) :
                            At(pre.video_buffer, i) = 0)
              => (cpu.registers[15] = 0 /\ cpu'.registers[15] = 1)]_vars

\* The second of two equal draws has run on a buffer the first one changed,
\* and the buffer is blank again
C5_Witness ==
    /\ RanDraw /\ SpriteLit
    /\ pre.video_buffer # Filled(0) /\ cpu.video_buffer = Filled(0)
    /\ pre.registers[15] = 0 /\ cpu.registers[15] = 1
    /\ pre.pc = RomBase + 8 /\ PreVx = 62

\* The bit the claim has Dxyn XOR into pixel i: bit b of sprite row r goes to
\* row (Vy + r) mod 32 and column (Vx + b) mod 64
ClaimedBit(i) ==
    LET r == ((i \div WIDTH) - (PreVy % HEIGHT) + HEIGHT) % HEIGHT
        b == ((i % WIDTH) - (PreVx % WIDTH) + WIDTH) % WIDTH
    IN  IF r < PreN /\ b < 8
        THEN (At(pre.memory, pre.address_reg + r) \div (2 ^ (7 - b))) % 2
        ELSE 0

\* The pixels the claim has Dxyn draw on
ClaimedTargets ==
    { ((PreVy + r) % HEIGHT) * WIDTH + ((PreVx + b) % WIDTH) :
        r \in 0 .. PreN - 1, b \in 0 .. 7 }

\* C6: Dxyn XORs bit b (most significant first) of sprite row r into the
\* pixel at row (Vy + r) mod 32 and column (Vx + b) mod 64 and changes no
\* other pixel: a sprite running past column 63 continues at column 0 of
\* the same row.
C6_DrawPositionWraps ==
    RanDraw =>
        \A i \in Cells(pre.video_buffer, cpu.video_buffer) \cup ClaimedTargets :
            At(cpu.video_buffer, i) = BitXor(At(pre.video_buffer, i), ClaimedBit(i))

\* A timer as a clock that fired found it (-1: the clock did not fire), and
\* as the clock left it
ClockClamps(seen, left) ==
    seen >= 0 => left = IF seen = 0 THEN 0 ELSE seen - 1

\* C7: a tick of a clock leaves a timer that is 0 at 0 and lowers a nonzero
\* timer by exactly 1, for the delay timer and the sound timer each.
C7_TimersClampAtZero ==
    /\ ClockClamps(event.delay_seen, cpu.delay_timer)
    /\ ClockClamps(event.sound_seen, cpu.sound_timer)

\* The delay clock has fired on a timer at 0 while the sound clock lowered
\* a nonzero timer
C7_Witness ==
    /\ ~panicked
    /\ event.delay_seen = 0 /\ cpu.delay_timer = 0
    /\ event.sound_seen = 3 /\ cpu.sound_timer = 2

\* C8: Fx29 sets the address register to 5 * (low nibble of Vx), where the
\* five rows of that glyph lie in a machine whose font is intact.
C8_FontGlyphLookup ==
    RanF(2, 9) =>
        LET g == PreVx % 16
        IN  /\ cpu.address_reg = g * 5
            /\ \A k \in 0 .. 4 : At(cpu.memory, cpu.address_reg + k) = font[g * 5 + k + 1]

\* C9: Fx33 stores v div 100, (v div 10) mod 10 and v mod 10 at I, I+1 and
\* I+2 (v the byte in Vx) and changes no other memory cell, no register and
\* not the address register.
C9_BcdStore ==
    RanF(3, 3) =>
        LET v == PreVx
            i == pre.address_reg
        IN  /\ At(cpu.memory, i) = v \div 100
            /\ At(cpu.memory, i + 1) = (v \div 10) % 10
            /\ At(cpu.memory, i + 2) = v % 10
            /\ 100 * At(cpu.memory, i) + 10 * At(cpu.memory, i + 1)
                 + At(cpu.memory, i + 2) = v
            /\ \A k \in 0 .. 2 : At(cpu.memory, i + k) \in 0 .. 9
            /\ \A a \in Cells(pre.memory, cpu.memory) \ {i, i + 1, i + 2} :
                 At(cpu.memory, a) = At(pre.memory, a)
            /\ cpu.registers = pre.registers
            /\ cpu.address_reg = pre.address_reg

\* Fx33 has stored the digits of 234
C9_Witness ==
    /\ RanF(3, 3) /\ PreVx = 234
    /\ At(pre.memory, pre.address_reg) = 0
    /\ At(cpu.memory, pre.address_reg) = 2
    /\ At(cpu.memory, pre.address_reg + 1) = 3
    /\ At(cpu.memory, pre.address_reg + 2) = 4

\* The instruction words the patterns of exec_opcode's match accept
KnownOpcode(opcode) ==
    LET nib == nibbles(opcode)
    IN  \/ opcode \in {224, 238}
        \/ nib[1] \in (1 .. 7) \cup (9 .. 13)
        \/ nib[1] = 8 /\ nib[4] \in (0 .. 7) \cup {14}
        \/ nib[1] = 14 /\ <<nib[3], nib[4]>> \in { <<9, 14>>, <<10, 1>> }
        \/ nib[1] = 15 /\ <<nib[3], nib[4]>> \in
             { <<0, 7>>, <<0, 10>>, <<1, 5>>, <<1, 8>>, <<1, 14>>, <<2, 9>>,
               <<3, 3>>, <<5, 5>>, <<6, 5>> }

\* A timer as the instruction of this step left it, before the clocks
SteppedTimer(seen, left) == IF seen >= 0 THEN seen ELSE left

\* C10: a Step on an instruction word that matches no pattern sets pc to
\* pc + 2 and leaves registers, memory, stack, stack pointer, timers, pixel
\* buffer and redraw flag unchanged.
C10_UnknownOpcodeAdvances ==
    [][(UpdateStep /\ ~panicked' /\ pre'.opcode >= 0 /\ ~KnownOpcode(pre'.opcode)) =>
         /\ cpu'.pc = pre'.pc + 2
         /\ cpu'.registers = pre'.registers
         /\ cpu'.address_reg = pre'.address_reg
         /\ cpu'.memory = pre'.memory
         /\ cpu'.stack = pre'.stack
         /\ cpu'.sp = pre'.sp
         /\ SteppedTimer(event'.delay_seen, cpu'.delay_timer) = pre'.delay_timer
         /\ SteppedTimer(event'.sound_seen, cpu'.sound_timer) = pre'.sound_timer
         /\ cpu'.video_buffer = pre'.video_buffer
         /\ cpu'.redraw = pre'.redraw]_vars

\* C11: Fx0A moves the engine from Running to WaitingForKey; a Step that
\* finds it WaitingForKey changes neither pc nor the registers while no key
\* is held, and returns it to Running when a key is held.
C11_BlockingKeyWait ==
    /\ (RanF(0, 10) /\ pre.status = "Running") => cpu.status = "WaitingForKey"
    /\ (Ran /\ pre.status = "WaitingForKey") =>
          IF event.held = {}
          THEN /\ cpu.status = "WaitingForKey"
               /\ cpu.pc = pre.pc
               /\ cpu.registers = pre.registers
          ELSE cpu.status = "Running"

\* The machine is as the last tick found it
Untouched ==
    /\ cpu.pc = pre.pc /\ cpu.sp = pre.sp /\ cpu.stack = pre.stack
    /\ cpu.registers = pre.registers /\ cpu.address_reg = pre.address_reg
    /\ cpu.memory = pre.memory /\ cpu.video_buffer = pre.video_buffer
    /\ cpu.delay_timer = pre.delay_timer /\ cpu.sound_timer = pre.sound_timer

\* C12: a Return that finds the stack empty and a Call that finds no free
\* slot make the step fail: nothing runs afterwards, the stack pointer stays
\* within 0..StackSize and the rest of the machine is as the step found it.
C12_StackPolicy ==
    (\/ pre.opcode = 238 /\ pre.sp = 0
     \/ pre.opcode >= 0 /\ PreNib[1] = 2 /\ pre.sp = StackSize - 1)
        => (panicked /\ cpu.sp \in 0 .. StackSize /\ Untouched)

\* The memory indices the code uses when it executes the instruction the
\* snapshot `p` is at: the fetch, and what the handler indexes
MemoryIndices(p) ==
    {p.pc, p.pc + 1} \cup
    IF p.opcode < 0 THEN {}
    ELSE LET nib == nibbles(p.opcode)
             i == p.address_reg
         IN  CASE nib[1] = 13 -> { i + row : row \in 0 .. nib[4] - 1 }
               [] nib[1] = 15 /\ nib[3] = 2 /\ nib[4] = 9 -> { nib[2] * 5 }
               [] nib[1] = 15 /\ nib[3] = 3 /\ nib[4] = 3 -> { i, i + 1, i + 2 }
               [] nib[1] = 15 /\ nib[3] \in {5, 6} /\ nib[4] = 5 ->
                    { i + k : k \in 0 .. nib[2] }
               [] OTHER -> {}

\* C13: every memory index the engine uses (the fetch at pc and pc + 1,
\* sprite rows, BCD digits, block transfers) lies inside the memory array,
\* whatever 12-bit address a program puts into pc or I.
C13_MemoryInRange ==
    \A i \in MemoryIndices(pre) : InBounds(i, MemSize)

\* The pixel the exported frame shows at i: lit in either colour, or not
FramePixel(i) == IF At(frame, i) \in {ColorQuiet, ColorBeep} THEN 1 ELSE 0

\* The pixel buffer differs from what the last frame export showed
BufferAhead ==
    \E i \in DOMAIN cpu.video_buffer.cells \cup DOMAIN frame.cells :
        At(cpu.video_buffer, i) # FramePixel(i)

\* The instruction word is Clear-display or Draw
ClearOrDraw(opcode) == opcode = 224 \/ (opcode >= 0 /\ opcode \div 4096 = 13)

\* C14: whenever the pixel buffer differs from the frame last exported the
\* redraw flag is set; Clear-display and Draw set the flag, every other
\* instruction leaves it as it is, and a frame export clears it.
C14_RedrawTracksBuffer ==
    /\ [](BufferAhead => cpu.redraw)
    /\ [][IF UpdateStep
          THEN cpu'.redraw = ((~panicked' /\ ClearOrDraw(pre'.opcode)) \/ cpu.redraw)
          ELSE ~cpu'.redraw]_vars

\* A Draw after a Clear-display found the flag cleared by an export and set
\* it, and a second export has shown the rows and cleared it again
C14_Witness ==
    /\ RanDraw /\ pre.pc = RomBase + 8
    /\ ~pre.redraw /\ pre.video_buffer = Filled(0)
    /\ cpu.video_buffer # Filled(0)
    /\ ~cpu.redraw /\ ~BufferAhead

\* C15: after 8xyE (x not F) VF is 1 if bit 7 of the old Vx was set and 0
\* otherwise, and Vx = (old Vx * 2) mod 256.
C15_ShiftLeftFlag ==
    (Ran /\ PreNib[1] = 8 /\ PreN = 14 /\ PreX # 15)
        => /\ cpu.registers[15] = PreVx \div 128
           /\ cpu.registers[15] \in {0, 1}
           /\ cpu.registers[PreX] = (PreVx * 2) % 256

\* C16: Fx15 sets the delay timer and Fx18 the sound timer to the byte in
\* Vx, each leaving the other timer and all registers unchanged, and Fx07
\* copies the delay timer into its register.
C16_SetTimersFromRegister ==
    /\ RanF(1, 5) =>
         /\ SteppedTimer(event.delay_seen, cpu.delay_timer) = PreVx
         /\ SteppedTimer(event.sound_seen, cpu.sound_timer) = pre.sound_timer
         /\ cpu.registers = pre.registers
    /\ RanF(1, 8) =>
         /\ SteppedTimer(event.sound_seen, cpu.sound_timer) = PreVx
         /\ SteppedTimer(event.delay_seen, cpu.delay_timer) = pre.delay_timer
         /\ cpu.registers = pre.registers
    /\ RanF(0, 7) => cpu.registers = [pre.registers EXCEPT ![PreX] = pre.delay_timer]

\* C17: Fx1E sets the address register to I + Vx (as 16 bits), leaves every
\* register unchanged and does not trap.
C17_AddToAddressRegister ==
    (pre.opcode >= 0 /\ PreNib[1] = 15 /\ PreY = 1 /\ PreN = 14)
        => /\ ~panicked
           /\ cpu.address_reg = (pre.address_reg + PreVx) % 65536
           /\ cpu.registers = pre.registers

\* C18: Fx55 copies V0..Vx into memory[I..I+x] and changes no other memory
\* cell, no register and not I; Fx65 copies memory[I..I+x] into V0..Vx and
\* changes no register above Vx, no memory and not I; and an Fx65 with the
\* x and I of the last Fx55, whose range was not written since, leaves in
\* V0..Vx the values they had at the store.
C18_BlockStoreLoad ==
    /\ RanF(5, 5) =>
         /\ \A k \in 0 .. PreX : At(cpu.memory, pre.address_reg + k) = pre.registers[k]
         /\ \A a \in Cells(pre.memory, cpu.memory) \
                       (pre.address_reg .. pre.address_reg + PreX) :
              At(cpu.memory, a) = At(pre.memory, a)
         /\ cpu.registers = pre.registers
         /\ cpu.address_reg = pre.address_reg
    /\ RanF(6, 5) =>
         /\ \A k \in 0 .. 15 :
              cpu.registers[k] = IF k <= PreX THEN At(pre.memory, pre.address_reg + k)
                                 ELSE pre.registers[k]
         /\ cpu.memory = pre.memory
         /\ cpu.address_reg = pre.address_reg
    /\ (RanF(6, 5) /\ last_store.x = PreX /\ last_store.address_reg = pre.address_reg) =>
         \A k \in 0 .. PreX : cpu.registers[k] = last_store.registers[k]

\* Fx65 has brought back V0..V3 as Fx55 stored them, after V0..V2 were
\* overwritten
C18_Witness ==
    /\ RanF(6, 5) /\ PreX = 3
    /\ last_store.x = 3 /\ last_store.address_reg = pre.address_reg
    /\ pre.registers[0] = 85 /\ pre.registers[1] = 86
    /\ cpu.registers[0] = 255 /\ cpu.registers[1] = 170 /\ cpu.registers[3] = 9
    /\ last_store.registers = cpu.registers

\* C19: starting from an empty stack, each of 12 nested Calls succeeds (a
\* Call that finds fewer than 12 return addresses on the stack pushes
\* pc + 2), and each Return resumes behind the Call it belongs to, down to
\* stack pointer 0.
C19_TwelveNestedCalls ==
    /\ (pre.opcode >= 0 /\ PreNib[1] = 2 /\ pre.sp \in 0 .. StackSize - 1) =>
          /\ ~panicked
          /\ cpu.sp = pre.sp + 1
          /\ cpu.pc = pre.opcode % 4096
    /\ (pre.opcode = 238 /\ pre.sp \in 1 .. StackSize) =>
          /\ ~panicked
          /\ cpu.sp = pre.sp - 1
          /\ cpu.pc = pre.stack[pre.sp]

\* The last instruction was Ex9E (k = 9, l = 14) or ExA1 (k = 10, l = 1)
RanKeySkip(k, l) == Ran /\ PreNib[1] = 14 /\ PreY = k /\ PreN = l

\* C20: with no key pressed Ex9E advances pc by 2 and ExA1 by 4 for every
\* Vx, 0 included; with key k pressed Ex9E advances by 4 iff Vx = k and ExA1
\* by 4 iff Vx # k.
C20_KeySkips ==
    /\ RanKeySkip(9, 14) =>
         cpu.pc = pre.pc + (IF event.held # {} /\ PreVx = key_code(event.held)
                            THEN 4 ELSE 2)
    /\ RanKeySkip(10, 1) =>
         cpu.pc = pre.pc + (IF event.held # {} /\ PreVx = key_code(event.held)
                            THEN 2 ELSE 4)

=============================================================================
